---- MODULE Spec2Model ----
(***************************************************************************)
(* Model of hubblestack_nova/modules/openssl.py: the audit() loop over the  *)
(* policy entries of the 'openssl' topkey, the certificate loaders, the     *)
(* validity-window computation and the pass/fail evaluator.                 *)
(*                                                                          *)
(* Conventions.                                                             *)
(*  - A dict is a function whose DOMAIN is its key set; d.get(k, default)   *)
(*    is Get(d, k, default).                                                *)
(*  - Python's None, for the string-valued fields, is the string None,      *)
(*    which is no host name, path or description of the input sets.         *)
(*  - Instants are whole seconds.  Certificate dates have a resolution of   *)
(*    one second ('%Y%m%d%H%M%SZ'); a clock reading with a fractional part  *)
(*    gives the same timedelta.days as the next whole second, so a clock in *)
(*    whole seconds loses no behaviour.                                     *)
(*  - An X509 object is a record; the absent certificate (None) is NoX509.  *)
(*    has_expired is the library's predicate and is a field of its own: it  *)
(*    is read from the library, never derived from the dates.               *)
(***************************************************************************)
EXTENDS Integers, Sequences, FiniteSets, TLC

VARIABLES
    verbose,        \* audit()'s verbose parameter
    utcnow,         \* the reading of datetime.datetime.utcnow()
    ret,            \* audit(): ret, the verbose buckets built by the loop
    tag_data,       \* audit(): the loop variable, the entry last processed
    x509,           \* audit(): the certificate last returned by _load_x509
    passed,         \* audit(): the verdict last returned by _check_x509
    failing_reason, \* audit(): the reason last assigned
    loads,          \* log of the calls of _load_x509, in order
    open_fds,       \* file objects opened by _load_x509_from_file, not closed
    returned,       \* the value audit() returns
    pc,             \* "loop", "done" (returned) or "raised" (exception)
    args,           \* the arguments of a call of _check_x509
    result,         \* the value that call returned
    check_pc        \* "idle", "call" or "return"

vars == <<verbose, utcnow, ret, tag_data, x509, passed, failing_reason, loads, open_fds, returned, pc,
          args, result, check_pc>>

auditVars == <<verbose, ret, tag_data, x509, passed, failing_reason, loads, open_fds, returned, pc>>
checkVars == <<args, result, check_pc>>

----------------------------------------------------------------------------
(* Bounds of the model *)

MaxEntries == 2       \* entries one audit() run processes
MaxDays == 2          \* certificate dates lie within this many days of the clock
MaxThreshold == 2     \* notAfter / notBefore thresholds are 0..MaxThreshold

----------------------------------------------------------------------------
(* Values *)

None == "None"
SecondsPerDay == 86400
HalfDay == SecondsPerDay \div 2
DefaultPort == 443
DefaultNotAfter == 0
DefaultNotBefore == 0

NoX509 == [loaded |-> FALSE, has_expired |-> FALSE, notAfter |-> 0, notBefore |-> 0]

Get(d, k, default) == IF k \in DOMAIN d THEN d[k] ELSE default

\* Truthy, were the test `is not None`: an empty string counts as set
TruthyIsNotNone(v) == v # None

\* Python truth value of a string-or-None field
Truthy(v) == v # None /\ v # ""

\* 'before{0}after'.format(n)
Format(before, n, after) == before \o ToString(n) \o after

----------------------------------------------------------------------------
\* get_x509_days_left, were the days truncated towards zero instead of floored
get_x509_days_left_truncating(cert) ==
    LET Trunc(d) == IF d >= 0 THEN d \div SecondsPerDay ELSE -((-d) \div SecondsPerDay)
    IN [notAfter  |-> Trunc(cert.notAfter - utcnow),
        notBefore |-> Trunc(cert.notBefore - utcnow)]

(* _get_x509_days_left: timedelta.days is the floor of the difference in days *)

get_x509_days_left(cert) ==
    [notAfter  |-> (cert.notAfter - utcnow) \div SecondsPerDay,
     notBefore |-> (cert.notBefore - utcnow) \div SecondsPerDay]

\* check_x509, were has_expired() consulted after the threshold rules
check_x509_thresholds_first(cert, notBefore, notAfter, fail_if_notBefore) ==
    IF ~cert.loaded THEN <<FALSE, "No certificate to be checked">>
    ELSE LET stats == get_x509_days_left(cert) IN
         IF notAfter >= stats.notAfter
         THEN <<FALSE, Format("The certificate will expire in less then ", notAfter, " days")>>
         ELSE IF notBefore <= stats.notBefore
         THEN IF notBefore = 0 /\ fail_if_notBefore
              THEN <<FALSE, Format("The certificate is not yet valid (", stats.notBefore,
                                   " days left until it will be valid)")>>
              ELSE <<FALSE, Format("The certificate will be valid in more then ", notBefore, " days")>>
         ELSE IF cert.has_expired THEN <<FALSE, "The certificate is expired">>
         ELSE <<TRUE, "">>

(* _check_x509: <<passed, failing_reason>> *)

check_x509(cert, notBefore, notAfter, fail_if_notBefore) ==
    IF ~cert.loaded THEN <<FALSE, "No certificate to be checked">>
    ELSE IF cert.has_expired THEN <<FALSE, "The certificate is expired">>
    ELSE LET stats == get_x509_days_left(cert) IN
         IF notAfter >= stats.notAfter
         THEN <<FALSE, Format("The certificate will expire in less then ", notAfter, " days")>>
         ELSE IF notBefore <= stats.notBefore
         THEN IF notBefore = 0 /\ fail_if_notBefore
              THEN <<FALSE, Format("The certificate is not yet valid (", stats.notBefore,
                                   " days left until it will be valid)")>>
              ELSE <<FALSE, Format("The certificate will be valid in more then ", notBefore, " days")>>
         ELSE <<TRUE, "">>

----------------------------------------------------------------------------
(* The certificate loaders.  What the network and the file system answer is *)
(* the environment's choice: a record `world` per call.                     *)
(*   endpoint: get  \in {"error", "empty", "ok"}  ssl.get_server_certificate *)
(*             raised / returned nothing / returned PEM text                 *)
(*   file:     open \in {"error", "ok"}           open() raised IOError      *)
(*             read \in {"error", "ok"}           cert_file.read() raised    *)
(*   both:     parse \in {"error", "ok"}          load_certificate raised    *)
(*             OpenSSL.crypto.Error; cert is the certificate it decodes      *)
(* A loader's outcome: the certificate returned, whether an exception left   *)
(* the function, and whether a file object was opened (none is ever closed   *)
(* by the code: no close(), no with-block).                                  *)

load_x509_from_endpoint(server, port, world) ==
    IF world.get # "ok" THEN [x509 |-> NoX509, raised |-> FALSE, opened |-> FALSE]
    ELSE IF world.parse # "ok" THEN [x509 |-> NoX509, raised |-> FALSE, opened |-> FALSE]
    ELSE [x509 |-> world.cert, raised |-> FALSE, opened |-> FALSE]

load_x509_from_file(cert_file_path, world) ==
    IF world.open # "ok" THEN [x509 |-> NoX509, raised |-> FALSE, opened |-> FALSE]
    ELSE IF world.read # "ok" THEN [x509 |-> NoX509, raised |-> TRUE, opened |-> TRUE]
    ELSE IF world.parse # "ok" THEN [x509 |-> NoX509, raised |-> FALSE, opened |-> TRUE]
    ELSE [x509 |-> world.cert, raised |-> FALSE, opened |-> TRUE]

load_x509(source, port, from_file, world) ==
    IF ~from_file THEN load_x509_from_endpoint(source, port, world)
    ELSE load_x509_from_file(source, world)

----------------------------------------------------------------------------
(* Inputs: the policy entries (the tag_data dicts _get_tags builds for the  *)
(* tags that match), what the environment answers, and the certificates.   *)

EmptyDict == [k \in {} |-> None]
Host == "www.google.com"
Path == "/etc/ssl/cert.pem"
Tags == {"CERT-001", "CERT-002"}

Base(tag) == ("tag" :> tag) @@ ("module" :> "openssl")
OptDescription == {EmptyDict, "description" :> "google certificate"}
EndpointFields == {EmptyDict, "endpoint" :> None, "endpoint" :> Host}
FileFields == {EmptyDict, "file" :> "", "file" :> Path}
PolicyFields ==
    {EmptyDict,
     ("notAfter" :> 1) @@ ("port" :> 8443),
     ("notBefore" :> 1) @@ ("fail_if_not_before" :> TRUE),
     ("notAfter" :> 1) @@ ("notBefore" :> 0) @@ ("fail_if_not_before" :> TRUE)}

\* entries that differ in tag and description, with and without the control key
TaggedEntries ==
    {Base(t) @@ d @@ ("endpoint" :> Host) @@ c :
        t \in Tags, d \in OptDescription, c \in {EmptyDict, "control" :> "accepted risk"}}
\* entries that differ in which sources are present, missing or empty
SourceEntries ==
    {Base("CERT-001") @@ e @@ f : e \in EndpointFields, f \in FileFields}
\* entries that differ in thresholds, port and flag
PolicyEntries ==
    {Base("CERT-001") @@ s @@ p :
        s \in {EmptyDict, "endpoint" :> Host, ("endpoint" :> Host) @@ ("file" :> Path)},
        p \in PolicyFields}
TagDataSet == TaggedEntries \cup SourceEntries \cup PolicyEntries

Cert(expired, notAfter, notBefore) ==
    [loaded |-> TRUE, has_expired |-> expired, notAfter |-> notAfter, notBefore |-> notBefore]

\* the certificates the audited endpoints and files hold
AuditCerts ==
    {Cert(TRUE, -HalfDay, -2 * SecondsPerDay),               \* expired half a day ago
     Cert(FALSE, HalfDay, -SecondsPerDay),                    \* expires in half a day
     Cert(FALSE, 2 * SecondsPerDay + HalfDay, -SecondsPerDay)} \* expires in 2.5 days

EndpointWorlds ==
    {[get |-> "error", parse |-> "ok", cert |-> NoX509],
     [get |-> "empty", parse |-> "ok", cert |-> NoX509],
     [get |-> "ok", parse |-> "error", cert |-> NoX509]}
    \cup {[get |-> "ok", parse |-> "ok", cert |-> c] : c \in AuditCerts}

FileWorlds ==
    {[open |-> "error", read |-> "ok", parse |-> "ok", cert |-> NoX509],
     [open |-> "ok", read |-> "error", parse |-> "ok", cert |-> NoX509],
     [open |-> "ok", read |-> "ok", parse |-> "error", cert |-> NoX509]}
    \cup {[open |-> "ok", read |-> "ok", parse |-> "ok", cert |-> c] : c \in AuditCerts}

----------------------------------------------------------------------------
(* audit(): the loop *)

Last(s) == s[Len(s)]

\* number of entries the loop has put in a bucket
Processed(r) == Len(r.Success) + Len(r.Failure) + Len(r.Controlled)

\* `if not endpoint and not file`
NoSource(endpoint, file) == ~Truthy(endpoint) /\ ~Truthy(file)

\* BothSources, were the check left out
BothSourcesUnchecked(endpoint, file) == FALSE

\* `if endpoint and file`
BothSources(endpoint, file) == Truthy(endpoint) /\ Truthy(file)

\* tag_data['reason'] = failing_reason
WithReason(td, reason) == ("reason" :> reason) @@ td

\* `if 'control' in tag_data`
Controlled ==
    /\ pc = "loop" /\ Processed(ret) < MaxEntries
    /\ \E td \in TagDataSet :
        /\ "control" \in DOMAIN td
        /\ tag_data' = td
        /\ ret' = [ret EXCEPT !.Controlled = Append(@, td)]
    /\ UNCHANGED <<verbose, utcnow, x509, passed, failing_reason, loads, open_fds,
                   returned, pc, checkVars>>

\* the two source checks: the entry fails before any certificate is loaded
SourceConflict ==
    /\ pc = "loop" /\ Processed(ret) < MaxEntries
    /\ \E td \in TagDataSet :
        LET endpoint == Get(td, "endpoint", None)
            file == Get(td, "file", None)
            reason == IF NoSource(endpoint, file)
                      THEN "No certificate to be checked"
                      ELSE "Only one certificate per check is allowed"
        IN /\ "control" \notin DOMAIN td
           /\ NoSource(endpoint, file) \/ BothSources(endpoint, file)
           /\ tag_data' = td
           /\ failing_reason' = reason
           /\ ret' = [ret EXCEPT !.Failure = Append(@, WithReason(td, reason))]
    /\ UNCHANGED <<verbose, utcnow, x509, passed, loads, open_fds, returned, pc, checkVars>>

\* the call of _load_x509 of line 137, for an entry that passed the source checks
Acquire(td, world) ==
    LET endpoint == Get(td, "endpoint", None)
        file == Get(td, "file", None)
        port == Get(td, "port", DefaultPort)
    IN IF Truthy(endpoint)
       THEN [source |-> endpoint, port |-> port, from_file |-> FALSE,
             got |-> load_x509(endpoint, port, FALSE, world)]
       ELSE [source |-> file, port |-> DefaultPort, from_file |-> TRUE,
             got |-> load_x509(file, DefaultPort, TRUE, world)]

LoadRecord(n, a) ==
    [n |-> n, source |-> a.source, port |-> a.port, from_file |-> a.from_file,
     outcome |-> IF a.got.raised THEN "raised"
                 ELSE IF a.got.x509.loaded THEN "x509" ELSE "absent"]

Evaluable(td) ==
    /\ "control" \notin DOMAIN td
    /\ ~NoSource(Get(td, "endpoint", None), Get(td, "file", None))
    /\ ~BothSources(Get(td, "endpoint", None), Get(td, "file", None))

WorldsOf(td) == IF Truthy(Get(td, "endpoint", None)) THEN EndpointWorlds ELSE FileWorlds

\* lines 137-147: load, check, file under Success or Failure.  `reclaimed`: the
\* runtime finalised the file object when the loader's frame was left.
Evaluate ==
    /\ pc = "loop" /\ Processed(ret) < MaxEntries
    /\ \E td \in TagDataSet :
        /\ Evaluable(td)
        /\ \E world \in WorldsOf(td), reclaimed \in BOOLEAN :
            LET a == Acquire(td, world)
                verdict == check_x509(a.got.x509,
                                      Get(td, "notBefore", DefaultNotBefore),
                                      Get(td, "notAfter", DefaultNotAfter),
                                      Get(td, "fail_if_not_before", FALSE))
            IN /\ ~a.got.raised
               /\ tag_data' = td
               /\ loads' = Append(loads, LoadRecord(Processed(ret) + 1, a))
               /\ open_fds' = IF a.got.opened /\ ~reclaimed THEN open_fds + 1 ELSE open_fds
               /\ x509' = a.got.x509
               /\ passed' = verdict[1]
               /\ failing_reason' = verdict[2]
               /\ ret' = IF verdict[1]
                         THEN [ret EXCEPT !.Success = Append(@, td)]
                         ELSE [ret EXCEPT !.Failure = Append(@, WithReason(td, verdict[2]))]
    /\ UNCHANGED <<verbose, utcnow, returned, pc, checkVars>>

\* line 137 when the loader lets an exception out: it leaves audit() as well.
\* The traceback keeps the loader's frame, and with it the file object, alive.
EvaluateRaises ==
    /\ pc = "loop" /\ Processed(ret) < MaxEntries
    /\ \E td \in TagDataSet :
        /\ Evaluable(td)
        /\ \E world \in WorldsOf(td) :
            LET a == Acquire(td, world)
            IN /\ a.got.raised
               /\ tag_data' = td
               /\ loads' = Append(loads, LoadRecord(Processed(ret) + 1, a))
               /\ open_fds' = IF a.got.opened THEN open_fds + 1 ELSE open_fds
    /\ pc' = "raised"
    /\ UNCHANGED <<verbose, utcnow, ret, x509, passed, failing_reason, returned, checkVars>>

----------------------------------------------------------------------------
(* audit(): the non-verbose collapse and the return *)

RECURSIVE collapse_from(_, _, _, _)
collapse_from(bucket, i, tags_descriptions, out) ==
    IF i > Len(bucket) THEN out
    ELSE LET tag == bucket[i]["tag"]
             description == Get(bucket[i], "description", None)
         IN IF <<tag, description>> \notin tags_descriptions
            THEN collapse_from(bucket, i + 1, tags_descriptions \cup {<<tag, description>>},
                               Append(out, tag :> description))
            ELSE collapse_from(bucket, i + 1, tags_descriptions, out)

\* collapse, were an entry remembered by its tag alone
RECURSIVE collapse_by_tag_from(_, _, _, _)
collapse_by_tag_from(bucket, i, seen_tags, out) ==
    IF i > Len(bucket) THEN out
    ELSE LET tag == bucket[i]["tag"]
             description == Get(bucket[i], "description", None)
         IN IF tag \notin seen_tags
            THEN collapse_by_tag_from(bucket, i + 1, seen_tags \cup {tag},
                                      Append(out, tag :> description))
            ELSE collapse_by_tag_from(bucket, i + 1, seen_tags, out)

collapse_by_tag(bucket) == collapse_by_tag_from(bucket, 1, {}, <<>>)

\* lines 154-161 (Failure) and 163-170 (Success)
collapse(bucket) == collapse_from(bucket, 1, {}, <<>>)

RECURSIVE collapse_controlled_from(_, _, _, _)
collapse_controlled_from(bucket, i, control_reasons, out) ==
    IF i > Len(bucket) THEN out
    ELSE LET tag == bucket[i]["tag"]
             description == Get(bucket[i], "description", None)
             control_reason == Get(bucket[i], "control", "")
         IN IF <<tag, description, control_reason>> \notin control_reasons
            THEN collapse_controlled_from(bucket, i + 1,
                     control_reasons \cup {<<tag, description, control_reason>>},
                     Append(out, tag :> [description |-> description, control |-> control_reason]))
            ELSE collapse_controlled_from(bucket, i + 1, control_reasons, out)

collapse_controlled(bucket) == collapse_controlled_from(bucket, 1, {}, <<>>)

\* ret.pop('Controlled') when the bucket is empty
PopControlled(r) ==
    IF r.Controlled = <<>> THEN [k \in {"Success", "Failure"} |-> r[k]] ELSE r

Return ==
    /\ pc = "loop"
    /\ returned' = PopControlled(
                     IF ~verbose
                     THEN [Success |-> collapse(ret.Success),
                           Failure |-> collapse(ret.Failure),
                           Controlled |-> collapse_controlled(ret.Controlled)]
                     ELSE ret)
    /\ pc' = "done"
    /\ UNCHANGED <<verbose, utcnow, ret, tag_data, x509, passed, failing_reason, loads,
                   open_fds, checkVars>>

\* the runtime finalises an unreferenced file object, which closes it
Finalize ==
    /\ open_fds > 0
    /\ open_fds' = open_fds - 1
    /\ UNCHANGED <<verbose, utcnow, ret, tag_data, x509, passed, failing_reason, loads,
                   returned, pc, checkVars>>

----------------------------------------------------------------------------
(* _check_x509 on its own: the arguments are drawn by the initial state *)

CertTimes ==
    {d * SecondsPerDay + s : d \in -MaxDays..MaxDays,
                             s \in {0, 1, HalfDay, SecondsPerDay - 1}}

X509Set == {Cert(e, a, b) : e \in BOOLEAN, a \in CertTimes, b \in CertTimes}

ArgSet ==
    [x509 : X509Set \cup {NoX509},
     notBefore : 0..MaxThreshold,
     notAfter : 0..MaxThreshold,
     fail_if_notBefore : BOOLEAN]

NoArgs == [x509 |-> NoX509, notBefore |-> 0, notAfter |-> 0, fail_if_notBefore |-> FALSE]

Check ==
    /\ check_pc = "call"
    /\ result' = check_x509(args.x509, args.notBefore, args.notAfter, args.fail_if_notBefore)
    /\ check_pc' = "return"
    /\ UNCHANGED <<args, utcnow, auditVars>>

----------------------------------------------------------------------------
(* Specifications *)

InitAudit ==
    /\ ret = [Success |-> <<>>, Failure |-> <<>>, Controlled |-> <<>>]
    /\ tag_data = EmptyDict
    /\ x509 = NoX509
    /\ passed = FALSE
    /\ failing_reason = ""
    /\ loads = <<>>
    /\ open_fds = 0
    /\ returned = EmptyDict
    /\ pc = "loop"

Init ==
    /\ verbose \in BOOLEAN
    /\ utcnow = 0
    /\ InitAudit
    /\ args = NoArgs
    /\ result = <<FALSE, "">>
    /\ check_pc = "idle"

Next ==
    \/ Controlled
    \/ SourceConflict
    \/ Evaluate
    \/ EvaluateRaises
    \/ Return
    \/ Finalize

Spec == Init /\ [][Next]_vars

InitCheck ==
    /\ verbose = FALSE
    /\ utcnow \in {0, 1}
    /\ InitAudit
    /\ args \in ArgSet
    /\ result = <<FALSE, "">>
    /\ check_pc = "call"

NextCheck == Check

SpecCheck == InitCheck /\ [][NextCheck]_vars

----------------------------------------------------------------------------
(* Properties *)

\* a field is "missing or falsy": the key is absent, or holds None or ''
Unset(td, k) == k \notin DOMAIN td \/ td[k] = None \/ td[k] = ""

\* tag_data is an entry the loop went past the control test with
NonControlled == "tag" \in DOMAIN tag_data /\ "control" \notin DOMAIN tag_data

\* the ordinal of the entry tag_data among the entries processed
CurrentN == IF pc = "raised" THEN Processed(ret) + 1 ELSE Processed(ret)

NoLoadForCurrent == \A i \in 1..Len(loads) : loads[i].n # CurrentN
LoadForCurrent == loads # <<>> /\ Last(loads).n = CurrentN

\* tag_data was filed last in the Failure bucket, with this reason
FailedWith(reason) ==
    /\ pc # "raised"
    /\ failing_reason = reason
    /\ ret.Failure # <<>>
    /\ Last(ret.Failure) = (("reason" :> reason) @@ tag_data)

\* C1: a non-controlled entry with neither endpoint nor file set (missing or
\* falsy) is put in the Failure bucket with the reason "No certificate to be
\* checked", and no certificate load is attempted for it.
C1_NoSourceFails ==
    (NonControlled /\ Unset(tag_data, "endpoint") /\ Unset(tag_data, "file"))
        => (FailedWith("No certificate to be checked") /\ NoLoadForCurrent)

\* the second of two entries has no source but thresholds, a flag and an empty
\* file field; the first was loaded, this one was not
C1_Witness ==
    /\ NonControlled /\ Unset(tag_data, "endpoint") /\ Unset(tag_data, "file")
    /\ "fail_if_not_before" \in DOMAIN tag_data
    /\ Processed(ret) = 2 /\ Len(loads) = 1 /\ loads[1].n = 1
    /\ FailedWith("No certificate to be checked")

\* C2: a non-controlled entry with both endpoint and file set is put in the
\* Failure bucket with the reason "Only one certificate per check is allowed",
\* and neither the endpoint nor the file is loaded for it.
C2_BothSourcesFail ==
    (NonControlled /\ ~Unset(tag_data, "endpoint") /\ ~Unset(tag_data, "file"))
        => (FailedWith("Only one certificate per check is allowed") /\ NoLoadForCurrent)

C2_Witness ==
    /\ NonControlled /\ ~Unset(tag_data, "endpoint") /\ ~Unset(tag_data, "file")
    /\ Processed(ret) = 2 /\ Len(loads) = 1 /\ loads[1].n = 1
    /\ FailedWith("Only one certificate per check is allowed")

Returned == check_pc = "return"
SecondsLeft == args.x509.notAfter - utcnow
SecondsUntilValid == args.x509.notBefore - utcnow
\* notAfter >= daysUntilExpiry and notBefore <= daysUntilValid, the day counts
\* being the floors of the differences in days
ExpiryRule == SecondsLeft < (args.notAfter + 1) * SecondsPerDay
ValidityRule == SecondsUntilValid >= args.notBefore * SecondsPerDay

\* C3: for a loaded certificate whose has_expired() is true, _check_x509
\* returns (False, "The certificate is expired"), whatever the thresholds, the
\* flag and the day counts are.
C3_ExpiredFirst ==
    (Returned /\ args.x509.loaded /\ args.x509.has_expired)
        => result = <<FALSE, "The certificate is expired">>

\* has_expired() is true although the dates and thresholds satisfy every other rule
C3_Witness ==
    /\ Returned /\ args.x509.loaded /\ args.x509.has_expired
    /\ ~ExpiryRule /\ ~ValidityRule
    /\ result = <<FALSE, "The certificate is expired">>

\* C4: for a loaded, non-expired certificate with notAfter >= daysUntilExpiry
\* the evaluator fails with exactly "The certificate will expire in less than
\* {notAfter} days".
C4_ExpiryReason ==
    (Returned /\ args.x509.loaded /\ ~args.x509.has_expired /\ ExpiryRule)
        => result = <<FALSE, "The certificate will expire in less than "
                             \o ToString(args.notAfter) \o " days">>

\* C5: for a loaded, non-expired certificate with notAfter < daysUntilExpiry
\* and notBefore <= daysUntilValid the evaluator fails, with "The certificate
\* is not yet valid ({daysUntilValid} days left until it will be valid)" when
\* notBefore is 0 and the flag is set, and with "The certificate will be valid
\* in more than {notBefore} days" otherwise.
C5_ValidityReason ==
    (Returned /\ args.x509.loaded /\ ~args.x509.has_expired /\ ~ExpiryRule /\ ValidityRule)
        => result = <<FALSE,
                      IF args.notBefore = 0 /\ args.fail_if_notBefore
                      THEN "The certificate is not yet valid ("
                           \o ToString(SecondsUntilValid \div SecondsPerDay)
                           \o " days left until it will be valid)"
                      ELSE "The certificate will be valid in more than "
                           \o ToString(args.notBefore) \o " days">>

C7_AcquisitionFailureIsAbsent ==
    /\ pc # "raised"
    /\ \A i \in 1..Len(loads) : loads[i].outcome \in {"x509", "absent"}
    /\ (LoadForCurrent /\ Last(loads).outcome # "x509")
           => FailedWith("No certificate to be checked")

\* C8: with notAfter and notBefore omitted from the entry, a loaded
\* certificate that is already valid and whose expiration lies in the future
\* passes the check.
C8_FutureExpiryPasses ==
    (/\ NonControlled /\ LoadForCurrent /\ pc # "raised"
     /\ "notAfter" \notin DOMAIN tag_data /\ "notBefore" \notin DOMAIN tag_data
     /\ x509.loaded /\ ~x509.has_expired
     /\ x509.notAfter > utcnow /\ x509.notBefore < utcnow)
        => (passed /\ ret.Success # <<>> /\ Last(ret.Success) = tag_data)

PairOf(e) == <<e["tag"], IF "description" \in DOMAIN e THEN e["description"] ELSE None>>
FirstSeen(pair, bucket) ==
    CHOOSE k \in 1..Len(bucket) :
        PairOf(bucket[k]) = pair /\ \A m \in 1..(k - 1) : PairOf(bucket[m]) # pair
ItemOf(pair) == pair[1] :> pair[2]

\* out lists each (tag, description) pair of bucket once, in first-seen order
Deduplicated(bucket, out) ==
    /\ {out[i] : i \in 1..Len(out)} = {ItemOf(PairOf(bucket[k])) : k \in 1..Len(bucket)}
    /\ \A i, j \in 1..Len(out) : i # j => out[i] # out[j]
    /\ \A i, j \in 1..Len(out) :
         i < j => \E k, m \in 1..Len(bucket) :
                     /\ k < m
                     /\ out[i] = ItemOf(PairOf(bucket[k]))
                     /\ k = FirstSeen(PairOf(bucket[k]), bucket)
                     /\ out[j] = ItemOf(PairOf(bucket[m]))
                     /\ m = FirstSeen(PairOf(bucket[m]), bucket)

\* C9: in non-verbose mode the Failure and the Success list audit() returns
\* hold one {tag: description} item per distinct (tag, description) pair of
\* the bucket's entries: none twice, none lost, in first-seen order.
C9_CollapseDeduplicates ==
    (pc = "done" /\ ~verbose)
        => (/\ Deduplicated(ret.Failure, returned["Failure"])
            /\ Deduplicated(ret.Success, returned["Success"]))

\* two failed entries of one tag and description, reported once
C9_Witness ==
    /\ pc = "done" /\ ~verbose
    /\ Len(ret.Failure) = 2 /\ ret.Failure[1] # ret.Failure[2]
    /\ PairOf(ret.Failure[1]) = PairOf(ret.Failure[2])
    /\ Len(returned["Failure"]) = 1

\* C10: once _load_x509_from_file has returned, the descriptor it opened is
\* closed: every file object still open belongs to a load that has not
\* returned (an exception left it).
C10_DescriptorClosed ==
    open_fds <= Cardinality({i \in 1..Len(loads) : loads[i].outcome = "raised"})

====
